---- MODULE Spec2Model ----
(***************************************************************************)
(* Model of verification/src/solidity/compiler_fetcher.rs: the compiler    *)
(* version catalog (CompilerVersions), its refreshable holder              *)
(* (RefreshableCompilerVersions, a tokio RwLock), the cron refresh job and *)
(* the download-and-install path of CompilerFetcher::fetch.                *)
(*                                                                         *)
(* Granularity: the async tasks (fetch, refresh_versions, all_versions)    *)
(* take one step per suspension point (.await); the closure handed to      *)
(* spawn_blocking runs on the blocking pool and takes one step per file    *)
(* system call.                                                            *)
(***************************************************************************)
EXTENDS Integers, Sequences, FiniteSets, TLC

(***************************************************************************)
(* Bounds                                                                  *)
(***************************************************************************)
\* number of fetch calls the callers make
MaxFetchCalls == 2
\* number of runs of the refresh job
MaxRuns == 2
\* number of write calls io::copy needs for one binary
BinLen == 2
\* largest number of build descriptors in a manifest given to the builder
MaxBuilds == 3

\* the fetch calls, numbered in the order they are made
Fetchers == 1 .. MaxFetchCalls
\* the runs of the refresh job, numbered in the order they are triggered
Refreshers == 1 .. MaxRuns
\* the caller of all_versions
Listers == {1}

None == "none"

(***************************************************************************)
(* Data: versions, URLs, manifest documents                                *)
(***************************************************************************)
\* CompilerVersion: a release version and a commit hash
VerA == [version |-> "0.7.0", commit |-> "9e61f92b"]
VerB == [version |-> "0.8.9", commit |-> "e5eed63a"]
Versions == {VerA, VerB}

\* Display for CompilerVersion, as used by folder.join(ver.to_string())
VersionToString(ver) == ver.version \o "+commit." \o ver.commit

\* A Url is its origin followed by its path segments
ListUrl == <<"https://binaries.soliditylang.org", "linux-amd64", "list.json">>
UrlA == <<"https://github.com", "blockscout", "solc-a">>
UrlB == <<"https://github.com", "blockscout", "solc-b">>

HashA == "0x3570"
HashB == "0x791e"

\* json::DownloadPath
PathUrl(u) == [kind |-> "Url", url |-> u]
PathFilename(form, segs) == [kind |-> "Filename", form |-> form, segs |-> segs]

\* json::CompilerInfo
Build(path, ver, sha) == [path |-> path, long_version |-> ver, sha256 |-> sha]

\* Url::join of a relative reference: a relative path replaces the last
\* segment of the base, a rooted path ("/x") replaces the whole path, and a
\* reference whose authority cannot be parsed is an error.
JoinOk(filename) == filename.form \in {"relative", "rooted"}

\* a join that appends the reference to the base, keeping its last segment
JoinAppended(base, filename) == base \o filename.segs

Join(base, filename) ==
    IF filename.form = "relative"
    THEN SubSeq(base, 1, Len(base) - 1) \o filename.segs
    ELSE <<base[1]>> \o filename.segs

\* TryFrom<(json::CompilerInfo, &Url)> for CompilerInfo
InfoOk(json_info) ==
    json_info.path.kind = "Url" \/ JoinOk(json_info.path)

InfoFrom(json_info, download_url) ==
    [url |-> IF json_info.path.kind = "Url"
             THEN json_info.path.url
             ELSE Join(download_url, json_info.path),
     sha256 |-> json_info.sha256]

EmptyCatalog == [v \in {} |-> None]

\* an insert that keeps the entry a version already has
InsertIfAbsent(releases, ver, info) ==
    [v \in (DOMAIN releases) \cup {ver} |->
        IF v \in DOMAIN releases THEN releases[v] ELSE info]

\* HashMap::insert
Insert(releases, ver, info) ==
    [v \in (DOMAIN releases) \cup {ver} |->
        IF v = ver THEN info ELSE releases[v]]

\* a builder that stops at a descriptor it cannot resolve and returns the
\* entries resolved so far
RECURSIVE BuildFromResolved(_, _, _)
BuildFromResolved(builds, download_url, releases) ==
    IF builds = <<>> \/ ~InfoOk(Head(builds))
    THEN [ok |-> TRUE, cat |-> releases]
    ELSE BuildFromResolved(Tail(builds), download_url,
                           Insert(releases, Head(builds).long_version,
                                  InfoFrom(Head(builds), download_url)))

\* TryFrom<(json::List, &Url)> for CompilerVersions: the loop over the
\* builds, releases being the map built so far
RECURSIVE BuildFrom(_, _, _)
BuildFrom(builds, download_url, releases) ==
    IF builds = <<>>
    THEN [ok |-> TRUE, cat |-> releases]
    ELSE IF ~InfoOk(Head(builds))
         THEN [ok |-> FALSE, cat |-> EmptyCatalog]
         ELSE BuildFrom(Tail(builds), download_url,
                        Insert(releases, Head(builds).long_version,
                               InfoFrom(Head(builds), download_url)))

CatalogFrom(list, download_url) == BuildFrom(list, download_url, EmptyCatalog)

\* The documents the manifest server may serve
DocOne == <<Build(PathUrl(UrlA), VerA, HashA)>>
DocTwo == <<Build(PathFilename("relative", <<"solc-a">>), VerA, HashA),
            Build(PathUrl(UrlB), VerB, HashB)>>
DocBad == <<Build(PathUrl(UrlB), VerB, HashB),
            Build(PathFilename("badhost", <<"[">>), VerA, HashA)>>
Documents == {DocOne, DocTwo, DocBad}

\* DEFAULT_DOWNLOAD_PREFIX: a manifest URL whose last path segment is empty
DownloadPrefix == <<"https://binaries.soliditylang.org", "linux-amd64", "">>

\* the manifest URLs the builder is given
ManifestUrls == {ListUrl, DownloadPrefix}

\* the "path" values of the build descriptors given to the builder: an
\* absolute URL, a file name, a file name with sub-directories, and a
\* reference that Url::join rejects
DescriptorPaths ==
    {PathUrl(UrlB),
     PathFilename("relative", <<"solc-a">>),
     PathFilename("relative", <<"download", "files", "solc-b">>),
     PathFilename("badhost", <<"[">>)}

\* json::CompilerInfo values
Descriptors ==
    {Build(path, ver, sha) :
        path \in DescriptorPaths, ver \in Versions, sha \in {HashA, HashB}}

\* json::List values of at most MaxBuilds builds
Lists == UNION {[1 .. n -> Descriptors] : n \in 0 .. MaxBuilds}

(***************************************************************************)
(* State                                                                   *)
(***************************************************************************)
VARIABLES
    versions_list_url, \* the manifest URL given to CompilerFetcher::new
    served,     \* the documents the manifest server may serve at that URL
    ctor,       \* CompilerFetcher::new: "start", "ready" (Ok) or "failed" (Err)
    ctorErr,    \* the error new returned
    schedule,   \* refresh_cron_schedule: None, "valid" or "invalid"
    job,        \* the refresh job: None or "running"
    initial,    \* the catalog new built the fetcher from
    versions,   \* the CompilerVersions inside the RwLock
    readers,    \* tasks holding the RwLock in shared mode across a suspension
    queue,      \* tasks waiting for the RwLock, in arrival order
    fpc,        \* fetch: where each call stands
    fver,       \* fetch: the version asked for
    fobs,       \* fetch: the catalog seen at the lookup
    finfo,      \* fetch: compiler_info
    fbytes,     \* fetch: the downloaded body
    fino,       \* fetch: the inode the open File refers to (0: no File)
    foff,       \* fetch: the offset of the open File
    ftask,      \* fetch: the result of the blocking task
    fres,       \* fetch: the value returned
    freq,       \* fetch: number of GET requests the call has sent
    overlap,    \* fetch: another fetch of the same version ran during the call
    rpc,        \* refresh_versions: where each run stands
    rfetched,   \* refresh_versions: fetched_versions
    rseen,      \* refresh_versions: the catalog it compared against
    rres,       \* refresh_versions: the value returned
    rlocks,     \* refresh_versions: lock acquisitions of the run
    rlogged,    \* the run logged "error during version refresh"
    lpc,        \* all_versions: where each call stands
    lobs,       \* all_versions: the catalog it enumerated
    lres,       \* all_versions: the value returned
    dirs,       \* file system: existing directories
    names,      \* file system: path -> inode (0: no such file)
    inodes      \* file system: inode -> content and mode

\* CompilerVersions::fetch_from_url: the outcomes of one call.  The GET may
\* fail, the body may fail to parse, and a parsed list may fail to resolve.
FetchFromUrlOutcomes(url) ==
    {[ok |-> FALSE, err |-> "ListJsonFetch", cat |-> EmptyCatalog],
     [ok |-> FALSE, err |-> "ParseListJson", cat |-> EmptyCatalog]}
    \cup
    {IF CatalogFrom(d, url).ok
     THEN [ok |-> TRUE, err |-> None, cat |-> CatalogFrom(d, url).cat]
     ELSE [ok |-> FALSE, err |-> "Path", cat |-> EmptyCatalog] : d \in served}

\* the catalogs a successful fetch_from_url can produce
ProducibleCatalogs ==
    {o.cat : o \in {x \in FetchFromUrlOutcomes(versions_list_url) : x.ok}}

lockVars == <<readers, queue>>
ctorVars == <<versions_list_url, served, ctor, ctorErr, schedule, job, initial>>
fetchVars == <<fpc, fver, fobs, finfo, fbytes, fino, foff, ftask, fres, freq,
               overlap>>
refreshVars == <<rpc, rfetched, rseen, rres, rlocks, rlogged>>
listVars == <<lpc, lobs, lres>>
fsVars == <<dirs, names, inodes>>
vars == <<ctorVars, versions, lockVars, fetchVars, refreshVars, listVars, fsVars>>

(***************************************************************************)
(* File system                                                             *)
(***************************************************************************)
Folder == "compilers"

\* self.folder.join(ver.to_string())
InstallDir(ver) == <<Folder, VersionToString(ver)>>

\* one path for every version
InstallPathShared(ver) == <<Folder, "solc">>

\* folder.join("solc")
InstallPath(ver) == InstallDir(ver) \o <<"solc">>

Paths == {InstallPath(v) : v \in Versions}
Inodes == 1 .. (Cardinality(Paths) + Cardinality(Fetchers))

BlankInode == [content |-> <<>>, exec |-> FALSE]

\* a binary left at VerA's path by an earlier run: longer than any download,
\* and not executable
StaleContent == [i \in 1 .. (BinLen + 1) |-> 99]

\* the body the download server sends for a URL, as BinLen chunks
Tag(url) == IF url = UrlA THEN 10 ELSE IF url = UrlB THEN 20 ELSE 30
ContentAt(url) == [i \in 1 .. BinLen |-> Tag(url) + i]

InUse(i) == (\E p \in Paths : names[p] = i) \/ (\E f \in Fetchers : fino[f] = i)
FreshInode == CHOOSE i \in Inodes : ~InUse(i) /\ \A j \in Inodes : ~InUse(j) => i <= j

\* what stat finds at a path with no file
NoFile == [missing |-> TRUE]

\* the file found at a path
FileAt(p) == IF names[p] = 0 THEN NoFile ELSE inodes[names[p]]

\* write(2) of one chunk at an offset: a write past the end of a file that
\* was truncated meanwhile leaves a hole of zero bytes before it
WriteAt(content, off, chunk) ==
    [i \in 1 .. (IF Len(content) > off + 1 THEN Len(content) ELSE off + 1) |->
        IF i = off + 1 THEN chunk
        ELSE IF i <= Len(content) THEN content[i] ELSE 0]

(***************************************************************************)
(* tokio::sync::RwLock: waiters are served in arrival order, a reader that *)
(* arrives behind a waiting writer waits behind it                         *)
(***************************************************************************)
Waiter(kind, p, mode) == [task |-> kind, id |-> p, mode |-> mode]

\* versions.read().await is granted
ReadGranted(kind, p) ==
    /\ queue # <<>>
    /\ Head(queue) = Waiter(kind, p, "read")

\* a lock that grants versions.write() while readers hold it
WriteGrantedAnyway(kind, p) ==
    /\ queue # <<>>
    /\ Head(queue) = Waiter(kind, p, "write")

\* versions.write().await is granted
WriteGranted(kind, p) ==
    /\ queue # <<>>
    /\ Head(queue) = Waiter(kind, p, "write")
    /\ readers = {}

(***************************************************************************)
(* Init                                                                    *)
(***************************************************************************)
NoResult == [kind |-> None]

\* the state before CompilerFetcher::new is called with the manifest URL url,
\* the manifest server serving the documents docs
InitWith(url, docs) ==
    /\ versions_list_url = url
    /\ served = docs
    /\ ctor = "start"
    /\ ctorErr = None
    /\ schedule \in {None, "valid", "invalid"}
    /\ job = None
    /\ initial = EmptyCatalog
    /\ versions = EmptyCatalog
    /\ readers = {}
    /\ queue = <<>>
    /\ fpc = [f \in Fetchers |-> "idle"]
    /\ fver = [f \in Fetchers |-> VerA]
    /\ fobs = [f \in Fetchers |-> EmptyCatalog]
    /\ finfo = [f \in Fetchers |-> None]
    /\ fbytes = [f \in Fetchers |-> <<>>]
    /\ fino = [f \in Fetchers |-> 0]
    /\ foff = [f \in Fetchers |-> 0]
    /\ ftask = [f \in Fetchers |-> None]
    /\ fres = [f \in Fetchers |-> NoResult]
    /\ freq = [f \in Fetchers |-> 0]
    /\ overlap = [f \in Fetchers |-> FALSE]
    /\ rpc = [r \in Refreshers |-> "idle"]
    /\ rfetched = [r \in Refreshers |-> EmptyCatalog]
    /\ rseen = [r \in Refreshers |-> EmptyCatalog]
    /\ rres = [r \in Refreshers |-> None]
    /\ rlocks = [r \in Refreshers |-> <<>>]
    /\ rlogged = [r \in Refreshers |-> FALSE]
    /\ lpc = [l \in Listers |-> "idle"]
    /\ lobs = [l \in Listers |-> EmptyCatalog]
    /\ lres = [l \in Listers |-> <<>>]
    /\ dirs = {InstallDir(VerA)}
    /\ names = [p \in Paths |-> IF p = InstallPath(VerA) THEN 1 ELSE 0]
    /\ inodes = [i \in Inodes |->
                   IF i = 1 THEN [content |-> StaleContent, exec |-> FALSE]
                   ELSE BlankInode]

Init == InitWith(ListUrl, Documents)

(***************************************************************************)
(* CompilerFetcher::new                                                    *)
(***************************************************************************)
\* spawn_refresh_job: Job::new_async rejects a schedule it cannot parse;
\* JobScheduler::new, add and start may fail too
SpawnOutcomes(cron_schedule) ==
    IF cron_schedule = "invalid" THEN {"ParseSchedule"} ELSE {"ok", "Scheduler"}

\* a constructor that falls back to CompilerFetcher::default()
NewResultOrDefault(fetched, cron_schedule, spawned) ==
    IF ~fetched.ok \/ (cron_schedule # None /\ spawned # "ok")
    THEN [ctor |-> "ready", err |-> None, job |-> None,
          versions |-> EmptyCatalog]
    ELSE [ctor |-> "ready", err |-> None,
          job |-> IF cron_schedule = None THEN None ELSE "running",
          versions |-> fetched.cat]

\* the value of new, given what fetch_from_url and spawn_refresh_job gave
NewResult(fetched, cron_schedule, spawned) ==
    IF ~fetched.ok
    THEN [ctor |-> "failed", err |-> fetched.err, job |-> None,
          versions |-> EmptyCatalog]
    ELSE IF cron_schedule = None
         THEN [ctor |-> "ready", err |-> None, job |-> None,
               versions |-> fetched.cat]
         ELSE IF spawned # "ok"
              THEN [ctor |-> "failed", err |-> spawned, job |-> None,
                    versions |-> EmptyCatalog]
              ELSE [ctor |-> "ready", err |-> None, job |-> "running",
                    versions |-> fetched.cat]

New ==
    /\ ctor = "start"
    /\ \E fetched \in FetchFromUrlOutcomes(versions_list_url) :
         \E spawned \in SpawnOutcomes(schedule) :
            LET res == NewResult(fetched, schedule, spawned) IN
            /\ ctor' = res.ctor
            /\ ctorErr' = res.err
            /\ job' = res.job
            /\ versions' = res.versions
            /\ initial' = res.versions
    /\ UNCHANGED <<versions_list_url, served, schedule, lockVars, fetchVars,
                   refreshVars, listVars, fsVars>>

(***************************************************************************)
(* The refresh job and RefreshableCompilerVersions::refresh_versions       *)
(***************************************************************************)
\* a cron trigger starts a run of the job's closure
RefreshTrigger(r) ==
    /\ job = "running"
    /\ rpc[r] = "idle"
    /\ IF r = 1 THEN TRUE ELSE rpc[r - 1] # "idle"
    /\ rpc' = [rpc EXCEPT ![r] = "fetch_from_url"]
    /\ UNCHANGED <<ctorVars, versions, lockVars, fetchVars, rfetched, rseen,
                   rres, rlocks, rlogged, listVars, fsVars>>

\* a run that, on an error, empties the catalog and ends the job
RefreshFetchedFatal(r) ==
    /\ rpc[r] = "fetch_from_url"
    /\ \E fetched \in FetchFromUrlOutcomes(versions_list_url) :
         IF fetched.ok
         THEN /\ rfetched' = [rfetched EXCEPT ![r] = fetched.cat]
              /\ queue' = Append(queue, Waiter("refresh", r, "read"))
              /\ rpc' = [rpc EXCEPT ![r] = "read"]
              /\ UNCHANGED <<rres, rlogged, versions, job>>
         ELSE /\ rpc' = [rpc EXCEPT ![r] = "done"]
              /\ rres' = [rres EXCEPT ![r] = fetched.err]
              /\ rlogged' = [rlogged EXCEPT ![r] = TRUE]
              /\ versions' = EmptyCatalog
              /\ job' = None
              /\ UNCHANGED <<rfetched, queue>>
    /\ UNCHANGED <<versions_list_url, served, ctor, ctorErr, schedule, initial,
                   readers, fetchVars, rseen,
                   rlocks, listVars, fsVars>>

\* fetch_from_url(..).await.map_err(..)? ; an error is logged by the closure
RefreshFetched(r) ==
    /\ rpc[r] = "fetch_from_url"
    /\ \E fetched \in FetchFromUrlOutcomes(versions_list_url) :
         IF fetched.ok
         THEN /\ rfetched' = [rfetched EXCEPT ![r] = fetched.cat]
              /\ queue' = Append(queue, Waiter("refresh", r, "read"))
              /\ rpc' = [rpc EXCEPT ![r] = "read"]
              /\ UNCHANGED <<rres, rlogged>>
         ELSE /\ rpc' = [rpc EXCEPT ![r] = "done"]
              /\ rres' = [rres EXCEPT ![r] = fetched.err]
              /\ rlogged' = [rlogged EXCEPT ![r] = TRUE]
              /\ UNCHANGED <<rfetched, queue>>
    /\ UNCHANGED <<ctorVars, versions, readers, fetchVars, rseen, rlocks, listVars, fsVars>>

\* a refresh that takes the exclusive lock whatever it fetched
NeedToUpdateAlways(fetched_versions, current) == TRUE

\* fetched_versions.0 != versions_lock.0
NeedToUpdate(fetched_versions, current) == fetched_versions # current

\* a run that keeps its read guard (reader 0) while it awaits write()
RefreshCompareHolding(r) ==
    /\ rpc[r] = "read"
    /\ ReadGranted("refresh", r)
    /\ rseen' = [rseen EXCEPT ![r] = versions]
    /\ rlocks' = [rlocks EXCEPT ![r] = Append(@, "read")]
    /\ IF NeedToUpdate(rfetched[r], versions)
       THEN /\ queue' = Append(Tail(queue), Waiter("refresh", r, "write"))
            /\ readers' = readers \cup {0}
            /\ rpc' = [rpc EXCEPT ![r] = "write"]
            /\ UNCHANGED rres
       ELSE /\ queue' = Tail(queue)
            /\ rpc' = [rpc EXCEPT ![r] = "done"]
            /\ rres' = [rres EXCEPT ![r] = "Ok"]
            /\ UNCHANGED readers
    /\ UNCHANGED <<ctorVars, versions, fetchVars, rfetched, rlogged, listVars, fsVars>>

\* the comparison under the shared lock
RefreshCompare(r) ==
    /\ rpc[r] = "read"
    /\ ReadGranted("refresh", r)
    /\ rseen' = [rseen EXCEPT ![r] = versions]
    /\ rlocks' = [rlocks EXCEPT ![r] = Append(@, "read")]
    /\ IF NeedToUpdate(rfetched[r], versions)
       THEN /\ queue' = Append(Tail(queue), Waiter("refresh", r, "write"))
            /\ rpc' = [rpc EXCEPT ![r] = "write"]
            /\ UNCHANGED rres
       ELSE /\ queue' = Tail(queue)
            /\ rpc' = [rpc EXCEPT ![r] = "done"]
            /\ rres' = [rres EXCEPT ![r] = "Ok"]
    /\ UNCHANGED <<ctorVars, versions, readers, fetchVars, rfetched, rlogged, listVars, fsVars>>

\* a refresh that adds the fetched entries to the map instead of replacing it
AssignMerged(current, fetched_versions) ==
    [v \in (DOMAIN current) \cup (DOMAIN fetched_versions) |->
        IF v \in DOMAIN fetched_versions THEN fetched_versions[v] ELSE current[v]]

\* a refresh that drops the fetched catalog
AssignNothing(current, fetched_versions) == current

\* *versions_lock = fetched_versions
Assign(current, fetched_versions) == fetched_versions

\* the assignment under the exclusive lock, and the return
RefreshWrite(r) ==
    /\ rpc[r] = "write"
    /\ WriteGranted("refresh", r)
    /\ queue' = Tail(queue)
    /\ rlocks' = [rlocks EXCEPT ![r] = Append(@, "write")]
    /\ versions' = Assign(versions, rfetched[r])
    /\ rpc' = [rpc EXCEPT ![r] = "done"]
    /\ rres' = [rres EXCEPT ![r] = "Ok"]
    /\ UNCHANGED <<ctorVars, readers, fetchVars, rfetched, rseen, rlogged, listVars, fsVars>>

(***************************************************************************)
(* VersionList::all_versions                                               *)
(***************************************************************************)
\* an enumeration that may repeat a key and leave another out
OrdersAny(S) == [1 .. Cardinality(S) -> S]

\* the orders in which a HashMap may be iterated
Orders(S) == {s \in [1 .. Cardinality(S) -> S] :
                 \A i, j \in 1 .. Cardinality(S) : s[i] = s[j] => i = j}

AllVersionsCall(l) ==
    /\ ctor = "ready"
    /\ lpc[l] = "idle"
    /\ lpc' = [lpc EXCEPT ![l] = "read"]
    /\ UNCHANGED <<lobs, lres>>
    /\ queue' = Append(queue, Waiter("list", l, "read"))
    /\ UNCHANGED <<ctorVars, versions, readers, fetchVars, refreshVars, fsVars>>

AllVersions(l) ==
    /\ lpc[l] = "read"
    /\ ReadGranted("list", l)
    /\ queue' = Tail(queue)
    /\ lobs' = [lobs EXCEPT ![l] = versions]
    /\ \E vec \in Orders(DOMAIN versions) : lres' = [lres EXCEPT ![l] = vec]
    /\ lpc' = [lpc EXCEPT ![l] = "done"]
    /\ UNCHANGED <<ctorVars, versions, readers, fetchVars, refreshVars, fsVars>>

(***************************************************************************)
(* Fetcher::fetch                                                          *)
(***************************************************************************)
InFlight(f) == fpc[f] \notin {"idle", "done"}

\* a caller calls fetch(ver); the call first waits for versions.read()
FetchCall(f, ver) ==
    /\ ctor = "ready"
    /\ fpc[f] = "idle"
    /\ IF f = 1 THEN TRUE ELSE fpc[f - 1] # "idle"
    /\ fpc' = [fpc EXCEPT ![f] = "read"]
    /\ fver' = [fver EXCEPT ![f] = ver]
    /\ overlap' = [g \in Fetchers |->
                     IF g = f
                     THEN \E h \in Fetchers \ {f} : InFlight(h) /\ fver[h] = ver
                     ELSE overlap[g] \/ (InFlight(g) /\ fver[g] = ver)]
    /\ queue' = Append(queue, Waiter("fetch", f, "read"))
    /\ UNCHANGED <<ctorVars, versions, readers, fobs, finfo, fbytes, fino, foff,
                   ftask, fres, freq, refreshVars, listVars, fsVars>>

\* a lookup that falls back to a default entry
GetOrDefault(catalog, ver) ==
    IF ver \in DOMAIN catalog
    THEN [found |-> TRUE, info |-> catalog[ver]]
    ELSE [found |-> TRUE, info |-> [url |-> UrlA, sha256 |-> HashA]]

\* compiler_versions.0.get(ver)
Get(catalog, ver) ==
    IF ver \in DOMAIN catalog
    THEN [found |-> TRUE, info |-> catalog[ver]]
    ELSE [found |-> FALSE, info |-> None]

\* the shared lock is granted; the lookup either returns NotFound, dropping
\* the guard, or sends the GET for compiler_info.url with the guard alive
FetchLookup(f) ==
    /\ fpc[f] = "read"
    /\ ReadGranted("fetch", f)
    /\ queue' = Tail(queue)
    /\ fobs' = [fobs EXCEPT ![f] = versions]
    /\ LET got == Get(versions, fver[f]) IN
       IF got.found
       THEN /\ finfo' = [finfo EXCEPT ![f] = got.info]
            /\ readers' = readers \cup {f}
            /\ freq' = [freq EXCEPT ![f] = @ + 1]
            /\ fpc' = [fpc EXCEPT ![f] = "get"]
            /\ UNCHANGED fres
       ELSE /\ fres' = [fres EXCEPT ![f] = [kind |-> "NotFound", ver |-> fver[f]]]
            /\ fpc' = [fpc EXCEPT ![f] = "done"]
            /\ UNCHANGED <<finfo, readers, freq>>
    /\ UNCHANGED <<ctorVars, versions, fver, fbytes, fino, foff, ftask, overlap, refreshVars, listVars, fsVars>>

\* fetch returns: the value is handed to the caller and the guard is dropped
Return(f, value) ==
    /\ fres' = [fres EXCEPT ![f] = value]
    /\ fpc' = [fpc EXCEPT ![f] = "done"]
    /\ readers' = readers \ {f}

\* a fetch that makes the version directory as soon as the response arrives
FetchResponseMkdir(f) ==
    /\ fpc[f] = "get"
    /\ dirs' = dirs \cup {InstallDir(fver[f])}
    /\ \/ /\ fpc' = [fpc EXCEPT ![f] = "bytes"]
          /\ UNCHANGED <<fres, readers>>
       \/ Return(f, [kind |-> "Fetch"])
    /\ UNCHANGED <<ctorVars, versions, queue, fver, fobs, finfo, fbytes, fino,
                   foff, ftask, freq, overlap, refreshVars, listVars,
                   names, inodes>>

\* reqwest::get(..).await.map_err(FetchError::Fetch)?
FetchResponse(f) ==
    /\ fpc[f] = "get"
    /\ \/ /\ fpc' = [fpc EXCEPT ![f] = "bytes"]
          /\ UNCHANGED <<fres, readers>>
       \/ Return(f, [kind |-> "Fetch"])
    /\ UNCHANGED <<ctorVars, versions, queue, fver, fobs, finfo, fbytes, fino,
                   foff, ftask, freq, overlap, refreshVars, listVars,
                   fsVars>>

\* a fetch that asks for the body again when reading it fails
FetchBodyRetry(f) ==
    /\ fpc[f] = "bytes"
    /\ \/ /\ fbytes' = [fbytes EXCEPT ![f] = ContentAt(finfo[f].url)]
          /\ fpc' = [fpc EXCEPT ![f] = "create_dir_all"]
          /\ UNCHANGED freq
       \/ /\ fpc' = [fpc EXCEPT ![f] = "get"]
          /\ freq' = [freq EXCEPT ![f] = @ + 1]
          /\ UNCHANGED fbytes
    /\ UNCHANGED <<ctorVars, versions, lockVars, fver, fobs, finfo, fino, foff,
                   ftask, fres, overlap, refreshVars, listVars, fsVars>>

\* response.bytes().await.map_err(FetchError::Fetch)? and spawn_blocking
FetchBody(f) ==
    /\ fpc[f] = "bytes"
    /\ \/ /\ fbytes' = [fbytes EXCEPT ![f] = ContentAt(finfo[f].url)]
          /\ fpc' = [fpc EXCEPT ![f] = "create_dir_all"]
          /\ UNCHANGED <<fres, readers>>
       \/ /\ Return(f, [kind |-> "Fetch"])
          /\ UNCHANGED fbytes
    /\ UNCHANGED <<ctorVars, versions, queue, fver, fobs, finfo, fino, foff,
                   ftask, freq, overlap, refreshVars, listVars, fsVars>>

\* the blocking task ends with an error: the File, if open, is dropped
TaskFails(f, err) ==
    /\ ftask' = [ftask EXCEPT ![f] = err]
    /\ fpc' = [fpc EXCEPT ![f] = "join"]

\* the task is cancelled before it runs (JoinError)
TaskCancelled(f) ==
    /\ fpc[f] = "create_dir_all"
    /\ TaskFails(f, "Shedule")
    /\ UNCHANGED <<ctorVars, versions, lockVars, fver, fobs, finfo, fbytes,
                   fino, foff, fres, freq, overlap, refreshVars,
                   listVars, fsVars>>

\* std::fs::create_dir_all(&folder).map_err(FetchError::File)?
TaskCreateDir(f) ==
    /\ fpc[f] = "create_dir_all"
    /\ \/ /\ dirs' = dirs \cup {InstallDir(fver[f])}
          /\ fpc' = [fpc EXCEPT ![f] = "remove_file"]
          /\ UNCHANGED ftask
       \/ /\ TaskFails(f, "File")
          /\ UNCHANGED dirs
    /\ UNCHANGED <<ctorVars, versions, lockVars, fver, fobs, finfo, fbytes,
                   fino, foff, fres, freq, overlap, refreshVars,
                   listVars, names, inodes>>

\* an inode nobody names and nobody has open is gone
Reclaim(nms, inos, handles) ==
    [i \in Inodes |->
        IF (\E p \in Paths : nms[p] = i) \/ (\E g \in Fetchers : handles[g] = i)
        THEN inos[i] ELSE BlankInode]

\* an install that waits while another install of the same version runs
TaskRemoveExclusive(f) ==
    /\ fpc[f] = "remove_file"
    /\ ~\E g \in Fetchers \ {f} :
          /\ fver[g] = fver[f]
          /\ fpc[g] \in {"create_executable", "copy"}
    /\ names' = [names EXCEPT ![InstallPath(fver[f])] = 0]
    /\ inodes' = [i \in Inodes |->
                    IF (\E p \in Paths : names'[p] = i)
                       \/ (\E g \in Fetchers : fino[g] = i)
                    THEN inodes[i] ELSE BlankInode]
    /\ fpc' = [fpc EXCEPT ![f] = "create_executable"]
    /\ UNCHANGED <<ctorVars, versions, lockVars, fver, fobs, finfo, fbytes,
                   fino, foff, ftask, fres, freq, overlap, refreshVars,
                   listVars, dirs>>

\* std::fs::remove_file(file), NotFound being no error
TaskRemove(f) ==
    /\ fpc[f] = "remove_file"
    /\ \/ /\ names' = [names EXCEPT ![InstallPath(fver[f])] = 0]
          /\ inodes' = Reclaim(names', inodes, fino)
          /\ fpc' = [fpc EXCEPT ![f] = "create_executable"]
          /\ UNCHANGED ftask
       \/ /\ names[InstallPath(fver[f])] # 0
          /\ TaskFails(f, "File")
          /\ UNCHANGED <<names, inodes>>
    /\ UNCHANGED <<ctorVars, versions, lockVars, fver, fobs, finfo, fbytes,
                   fino, foff, fres, freq, overlap, refreshVars,
                   listVars, dirs>>

\* OpenOptions .create(true).mode(0o777): the file made when none exists
NewFile == [content |-> <<>>, exec |-> TRUE]

\* OpenOptions .truncate(true): an existing file is emptied, its mode stays
Truncate(inode) == [inode EXCEPT !.content = <<>>]

\* create_executable(file).map_err(FetchError::File)?
TaskCreate(f) ==
    /\ fpc[f] = "create_executable"
    /\ \/ LET p == InstallPath(fver[f])
              i == IF names[p] = 0 THEN FreshInode ELSE names[p]
          IN /\ names' = [names EXCEPT ![p] = i]
             /\ inodes' = [inodes EXCEPT ![i] =
                             IF names[p] = 0 THEN NewFile ELSE Truncate(@)]
             /\ fino' = [fino EXCEPT ![f] = i]
             /\ foff' = [foff EXCEPT ![f] = 0]
             /\ fpc' = [fpc EXCEPT ![f] = "copy"]
             /\ UNCHANGED ftask
       \/ /\ TaskFails(f, "File")
          /\ UNCHANGED <<names, inodes, fino, foff>>
    /\ UNCHANGED <<ctorVars, versions, lockVars, fver, fobs, finfo, fbytes,
                   fres, freq, overlap, refreshVars, listVars, dirs>>

\* std::io::copy(&mut bytes.as_ref(), &mut file): one write per step; after
\* the last write, or on an error, the File is dropped and the task ends
TaskCopy(f) ==
    /\ fpc[f] = "copy"
    /\ \/ /\ foff[f] < Len(fbytes[f])
          /\ LET written == [inodes EXCEPT ![fino[f]].content =
                                WriteAt(@, foff[f], fbytes[f][foff[f] + 1])]
             IN IF foff[f] + 1 < Len(fbytes[f])
                THEN /\ inodes' = written
                     /\ foff' = [foff EXCEPT ![f] = @ + 1]
                     /\ UNCHANGED <<fino, fpc, ftask>>
                ELSE /\ fino' = [fino EXCEPT ![f] = 0]
                     /\ foff' = [foff EXCEPT ![f] = 0]
                     /\ inodes' = Reclaim(names, written, fino')
                     /\ TaskFails(f, "Ok")
       \/ /\ fino' = [fino EXCEPT ![f] = 0]
          /\ foff' = [foff EXCEPT ![f] = 0]
          /\ inodes' = Reclaim(names, inodes, fino')
          /\ TaskFails(f, "File")
    /\ UNCHANGED <<ctorVars, versions, lockVars, fver, fobs, finfo, fbytes,
                   fres, freq, overlap, refreshVars, listVars, dirs,
                   names>>

\* .await.map_err(FetchError::Shedule)?? and Ok(file)
FetchJoin(f) ==
    /\ fpc[f] = "join"
    /\ Return(f, IF ftask[f] = "Ok"
                 THEN [kind |-> "Ok", path |-> InstallPath(fver[f])]
                 ELSE [kind |-> ftask[f]])
    /\ UNCHANGED <<ctorVars, versions, queue, fver, fobs, finfo, fbytes, fino,
                   foff, ftask, freq, overlap, refreshVars, listVars,
                   fsVars>>

(***************************************************************************)
(* Specification                                                           *)
(***************************************************************************)
\* the steps of the runs R of the refresh job
RefreshNext(R) ==
    \/ \E r \in R : RefreshTrigger(r)
    \/ \E r \in R : RefreshFetched(r)
    \/ \E r \in R : RefreshCompare(r)
    \/ \E r \in R : RefreshWrite(r)

\* the steps of the calls of all_versions
ListNext ==
    \/ \E l \in Listers : AllVersionsCall(l)
    \/ \E l \in Listers : AllVersions(l)

\* the steps of the constructor, the refresh job and all_versions
ServiceNext == New \/ RefreshNext(Refreshers) \/ ListNext

\* the steps of the fetch calls F
FetchNext(F) ==
    \/ \E f \in F : \E ver \in Versions : FetchCall(f, ver)
    \/ \E f \in F : FetchLookup(f)
    \/ \E f \in F : FetchResponse(f)
    \/ \E f \in F : FetchBody(f)
    \/ \E f \in F : TaskCancelled(f)
    \/ \E f \in F : TaskCreateDir(f)
    \/ \E f \in F : TaskRemove(f)
    \/ \E f \in F : TaskCreate(f)
    \/ \E f \in F : TaskCopy(f)
    \/ \E f \in F : FetchJoin(f)

\* The service: the runs of the refresh job may overlap each other, a call
\* of all_versions and a call of fetch.
Next == ServiceNext \/ FetchNext({1})

Spec == Init /\ [][Next]_vars

\* A fetcher built with no refresh schedule (as in the test
\* list_download_versions) whose callers make fetch calls concurrently.
InitInstall == Init /\ schedule = None

NextInstall == New \/ FetchNext(Fetchers)

SpecInstall == InitInstall /\ [][NextInstall]_vars

\* A fetcher with a refresh schedule whose callers make fetch calls
\* concurrently while one run of the refresh job and a call of all_versions
\* take place.
InitShared == Init /\ schedule = "valid"

NextShared == New \/ RefreshNext({1}) \/ ListNext \/ FetchNext(Fetchers)

SpecShared == InitShared /\ [][NextShared]_vars

\* a step of the fetch call f after the call was made
FetchStep(f) ==
    \/ FetchLookup(f)
    \/ FetchResponse(f)
    \/ FetchBody(f)
    \/ TaskCancelled(f)
    \/ TaskCreateDir(f)
    \/ TaskRemove(f)
    \/ TaskCreate(f)
    \/ TaskCopy(f)
    \/ FetchJoin(f)

\* a step of the run r of the refresh job after it was triggered
RefreshStep(r) == RefreshFetched(r) \/ RefreshCompare(r) \/ RefreshWrite(r)

\* Every task that was started keeps being polled: a request ends, a step
\* of the blocking task ends, and a task the lock is granted to goes on.
Fairness ==
    /\ \A f \in Fetchers : WF_vars(FetchStep(f))
    /\ \A r \in Refreshers : WF_vars(RefreshStep(r))
    /\ \A l \in Listers : WF_vars(AllVersions(l))

\* The service of Spec whose started tasks all keep running.
SpecLive == Init /\ [][Next]_vars /\ Fairness

\* The builder of the catalog on its own: CompilerFetcher::new, with no
\* refresh schedule, given a manifest URL and a server that serves one
\* manifest, the two drawn from ManifestUrls and Lists.
InitBuild ==
    \E url \in ManifestUrls : \E list \in Lists :
        InitWith(url, {list}) /\ schedule = None

NextBuild == New

SpecBuild == InitBuild /\ [][NextBuild]_vars

(***************************************************************************)
(* Claims                                                                  *)
(***************************************************************************)
Range(seq) == {seq[i] : i \in DOMAIN seq}

\* the catalogs that were installed as the snapshot so far
WasInstalled(c) ==
    \/ c = initial
    \/ \E r \in Refreshers : "write" \in Range(rlocks[r]) /\ rfetched[r] = c

\* C1: every read of the catalog (the lookup of fetch, the enumeration of
\* all_versions) and the snapshot itself is one complete catalog: the
\* initial one or one that a successful fetch_from_url produced and a
\* refresh installed, never a mix of two catalogs.
C1_CompleteSnapshot ==
    /\ ctor = "ready" =>
          versions \in ProducibleCatalogs /\ WasInstalled(versions)
    /\ \A f \in Fetchers : fpc[f] \notin {"idle", "read"} =>
          fobs[f] \in ProducibleCatalogs /\ WasInstalled(fobs[f])
    /\ \A l \in Listers : lpc[l] = "done" =>
          /\ lobs[l] \in ProducibleCatalogs /\ WasInstalled(lobs[l])
          /\ Range(lres[l]) = DOMAIN lobs[l]

\* C1 witness: a fetch looked up a catalog that a refresh installed, while
\* another run of the refresh job is under way and all_versions has read too
C1_Witness ==
    \E f \in Fetchers, r \in Refreshers, l \in Listers :
        /\ fpc[f] = "get"
        /\ fobs[f] # initial
        /\ rpc[r] \in {"read", "write"}
        /\ lpc[l] = "done"
        /\ lobs[l] # fobs[f]

\* the states in which fetch waits for the network or for the install
FetchIO == {"get", "bytes", "create_dir_all", "remove_file",
            "create_executable", "copy", "join"}

\* C2: no lock on the catalog is held during network I/O: fetch does not
\* hold the shared lock while it downloads and installs, and
\* refresh_versions holds and awaits no lock while it fetches the manifest.
C2_NoLockDuringIO ==
    /\ \A f \in Fetchers : fpc[f] \in FetchIO => f \notin readers
    /\ \A r \in Refreshers : rpc[r] = "fetch_from_url" =>
          /\ rlocks[r] = <<>>
          /\ \A i \in DOMAIN queue :
                ~(queue[i].task = "refresh" /\ queue[i].id = r)

\* C3: a fetch whose version is not a key of the catalog seen at the lookup
\* returns NotFound carrying that version at the lookup step, having sent
\* no request, and that step leaves the file system, the catalog and the
\* lock as they were; the call does nothing afterwards.
C3_NotFound ==
    [][\A f \in Fetchers :
        /\ (fpc[f] = "read" /\ fpc'[f] # "read" /\ fver[f] \notin DOMAIN versions) =>
              /\ fpc'[f] = "done"
              /\ fres'[f] = [kind |-> "NotFound", ver |-> fver[f]]
              /\ freq'[f] = 0
              /\ f \notin readers'
              /\ UNCHANGED <<dirs, names, inodes, versions>>
        /\ (fpc[f] = "done" /\ fres[f].kind = "NotFound") =>
              /\ fver[f] \notin DOMAIN fobs[f]
              /\ UNCHANGED <<fpc[f], fres[f], freq[f], fino[f]>>
        /\ (fpc[f] = "read" /\ fpc'[f] = "done") =>
              fver[f] \notin DOMAIN versions
      ]_vars

\* C3 witness: a fetch has returned NotFound
C3_Witness ==
    \E f \in Fetchers :
        fpc[f] = "done" /\ fres[f] = [kind |-> "NotFound", ver |-> fver[f]]

\* C4: a refresh run waits for or takes the exclusive lock only if its
\* comparison under the shared lock found a difference; a run that fetched
\* a catalog equal to the snapshot ends having taken the shared lock only.
C4_NoWriteLockWhenEqual ==
    \A r \in Refreshers :
        /\ (\/ rpc[r] = "write"
            \/ "write" \in Range(rlocks[r])
            \/ \E i \in DOMAIN queue : queue[i] = Waiter("refresh", r, "write"))
           => (rlocks[r][1] = "read" /\ rfetched[r] # rseen[r])
        /\ (rpc[r] = "done" /\ rres[r] = "Ok" /\ rfetched[r] = rseen[r])
           => rlocks[r] = <<"read">>

\* C4 witness: a run that fetched what the snapshot already held has ended
\* (after an earlier run changed the snapshot)
C4_Witness ==
    \E r \in Refreshers :
        /\ rpc[r] = "done" /\ rres[r] = "Ok"
        /\ rfetched[r] = rseen[r]
        /\ rseen[r] # initial
        /\ rlocks[r] = <<"read">>

\* C5: when a refresh run that fetched catalog C returns Ok, the snapshot
\* is C at that moment, and the snapshot changes only by the write of a
\* refresh run.
C5_RefreshInstalls ==
    [][/\ \A r \in Refreshers :
            (rpc[r] # "done" /\ rpc'[r] = "done" /\ rres'[r] = "Ok")
               => versions' = rfetched[r]
       /\ versions' # versions =>
            (ctor = "start" \/
             \E r \in Refreshers : rpc[r] = "write" /\ rpc'[r] = "done"
                                   /\ versions' = rfetched[r])
      ]_vars

\* C5 witness: two runs whose check-then-write phases overlapped: one has
\* written and returned, the other compared before that write and waits
\* for the exclusive lock
C5_Witness ==
    \E r, q \in Refreshers :
        /\ r # q
        /\ rpc[r] = "done" /\ "write" \in Range(rlocks[r])
        /\ rpc[q] = "write" /\ rseen[q] # versions

RefreshErrors == {"ListJsonFetch", "ParseListJson", "Path"}

\* C6: a run whose manifest fetch, parse or path resolution fails leaves
\* the snapshot and the lock as they were, takes no lock, logs the error,
\* and the job and the fetcher stay in service.
C6_FailedRefresh ==
    [][\A r \in Refreshers :
        /\ (rpc[r] = "fetch_from_url" /\ rpc'[r] = "done") =>
              /\ rres'[r] \in RefreshErrors
              /\ rlogged'[r]
              /\ rlocks'[r] = <<>>
              /\ UNCHANGED <<versions, readers, queue, job, ctor>>
        /\ (rpc[r] = "done" /\ rres[r] \in RefreshErrors) =>
              /\ job = "running" /\ ctor = "ready"
              /\ UNCHANGED <<rpc[r], rlocks[r], rres[r]>>
      ]_vars

\* C6 witness: after a failed run, a later run installed a catalog and a
\* fetch resolved its version
C6_Witness ==
    \E r, q \in Refreshers, f \in Fetchers :
        /\ r < q
        /\ rpc[r] = "done" /\ rres[r] \in RefreshErrors /\ rlogged[r]
        /\ rpc[q] = "done" /\ rres[q] = "Ok" /\ "write" \in Range(rlocks[q])
        /\ fpc[f] = "done" /\ fres[f].kind = "Ok"

\* C10: new fails when the initial manifest fetch fails or the schedule
\* cannot be registered, and then there is no fetcher; a failed initial
\* fetch spawns no job; with no schedule the catalog stays the initial one.
C10_Constructor ==
    /\ ctor = "failed" =>
          /\ ctorErr \in RefreshErrors \cup {"ParseSchedule", "Scheduler"}
          /\ job = None
          /\ \A f \in Fetchers : fpc[f] = "idle"
          /\ \A l \in Listers : lpc[l] = "idle"
          /\ \A r \in Refreshers : rpc[r] = "idle"
    /\ ctor = "ready" =>
          /\ ctorErr = None
          /\ initial \in ProducibleCatalogs
          /\ schedule # "invalid"
          /\ (schedule = None) = (job = None)
    /\ (ctor = "ready" /\ schedule = None) =>
          /\ versions = initial
          /\ \A r \in Refreshers : rpc[r] = "idle"
    /\ ctorErr \in RefreshErrors => job = None

\* C10 witness: new returned the error of a schedule that does not parse
C10_Witness ==
    ctor = "failed" /\ ctorErr = "ParseSchedule" /\ job = None

\* the file at the install path of f is the complete, executable binary
\* that f downloaded
Installed(f) ==
    /\ FileAt(InstallPath(fver[f])) # NoFile
    /\ FileAt(InstallPath(fver[f])).exec
    /\ FileAt(InstallPath(fver[f])).content = fbytes[f]
    /\ fbytes[f] = ContentAt(fobs[f][fver[f]].url)

ReturnsOk(f) == fpc[f] = "join" /\ fpc'[f] = "done" /\ fres'[f].kind = "Ok"

\* C7 as stated: when fetch returns Ok(path) and no other fetch of the same
\* version is in flight at that moment, the file at path is the executable
\* binary it downloaded.
C7_AsStated ==
    [][\A f \in Fetchers :
        (/\ ReturnsOk(f)
         /\ ~\E g \in Fetchers \ {f} : InFlight(g) /\ fver[g] = fver[f])
        => /\ fres'[f].path = InstallPath(fver[f])
           /\ Installed(f)'
      ]_vars

\* When fetch returns Ok(path) and no other fetch of the same version was
\* in flight at any time during the call, the file at path is the
\* executable binary it downloaded, whatever was at path before.
InstallCorrectAlone ==
    [][\A f \in Fetchers :
        (ReturnsOk(f) /\ ~overlap[f])
        => /\ fres'[f].path = InstallPath(fver[f])
           /\ Installed(f)'
      ]_vars

\* a fetch of the version whose path held a stale, longer, non-executable
\* file has returned Ok and the path holds the download
InstalledOverStale ==
    \E f \in Fetchers :
        /\ fpc[f] = "done" /\ fres[f].kind = "Ok" /\ ~overlap[f]
        /\ fver[f] = VerA
        /\ Len(StaleContent) > Len(fbytes[f])
        /\ Installed(f)

\* the file-system state a version owns: its directory entry and file
Owned(ver) == <<names[InstallPath(ver)], FileAt(InstallPath(ver))>>

\* f takes a step
Steps(f) == fpc'[f] # fpc[f] \/ foff'[f] # foff[f]

\* C8: the install path is <folder>/<version>/solc, different versions have
\* different paths, a step of a fetch leaves the files of the other
\* versions as they are, and a fetch that ran beside fetches of other
\* versions only leaves its download at its path when it returns Ok.
C8_DisjointPaths ==
    [][/\ \A v, w \in Versions :
            /\ InstallPath(v) = <<Folder, VersionToString(v), "solc">>
            /\ InstallPath(v) = InstallPath(w) => v = w
       /\ \A f \in Fetchers :
            Steps(f) => \A v \in Versions \ {fver'[f]} : Owned(v)' = Owned(v)
       /\ \A f \in Fetchers :
            (/\ ReturnsOk(f)
             /\ \A g \in Fetchers \ {f} : fpc[g] # "idle" => fver[g] # fver[f])
            => Installed(f)'
      ]_vars

\* C8 witness: two fetches of different versions are copying at the same
\* time
C8_Witness ==
    \E f, g \in Fetchers :
        /\ fver[f] # fver[g]
        /\ fpc[f] = "copy" /\ foff[f] > 0
        /\ fpc[g] = "copy" /\ foff[g] > 0

\* C9: the install steps of a fetch are never held back by another fetch,
\* of the same version or not: whatever the other calls are doing, the
\* next file-system call of the blocking task can run.
C9_NoMutualExclusion ==
    \A f \in Fetchers :
        /\ fpc[f] = "create_dir_all" => ENABLED TaskCreateDir(f)
        /\ fpc[f] = "remove_file" => ENABLED TaskRemove(f)
        /\ fpc[f] = "create_executable" => ENABLED TaskCreate(f)
        /\ fpc[f] = "copy" => ENABLED TaskCopy(f)

\* C9 witness: a fetch has returned Ok(path) while another fetch of the
\* same version is in the middle of its install and the file at path is
\* missing or holds less than the binary
C9_Witness ==
    \E f, g \in Fetchers :
        /\ f # g /\ fver[f] = fver[g]
        /\ fpc[f] = "done" /\ fres[f].kind = "Ok"
        /\ fpc[g] \in {"create_executable", "copy"}
        /\ \/ FileAt(fres[f].path) = NoFile
           \/ Len(FileAt(fres[f].path).content) < BinLen

\* the steps of the blocking task and the wait for it
InstallSteps == {"create_dir_all", "remove_file", "create_executable", "copy",
                 "join"}

\* the state of the call f in the state machine of fetch
Phase(f) ==
    IF fpc[f] = "idle" THEN "NotCalled"
    ELSE IF fpc[f] = "read" THEN "Lookup"
    ELSE IF fpc[f] \in {"get", "bytes"} THEN "Downloading"
    ELSE IF fpc[f] \in InstallSteps THEN "Installing"
    ELSE IF fres[f].kind = "NotFound" THEN "NotFound"
    ELSE IF fres[f].kind = "Fetch" THEN "DownloadFailed"
    ELSE IF fres[f].kind \in {"File", "Shedule"} THEN "InstallFailed"
    ELSE IF fres[f].kind = "Ok" THEN "Installed"
    ELSE "Other"

Terminal == {"NotFound", "DownloadFailed", "InstallFailed", "Installed"}

\* Lookup -> (NotFound | Downloading) -> (DownloadFailed | Installing)
\*        -> (InstallFailed | Installed)
Transitions ==
    {<<"NotCalled", "Lookup">>,
     <<"Lookup", "NotFound">>, <<"Lookup", "Downloading">>,
     <<"Downloading", "DownloadFailed">>, <<"Downloading", "Installing">>,
     <<"Installing", "InstallFailed">>, <<"Installing", "Installed">>}

\* the order of the steps inside one call
StepRank(pc) ==
    CASE pc = "idle" -> 0
      [] pc = "read" -> 1
      [] pc = "get" -> 2
      [] pc = "bytes" -> 3
      [] pc = "create_dir_all" -> 4
      [] pc = "remove_file" -> 5
      [] pc = "create_executable" -> 6
      [] pc = "copy" -> 7
      [] pc = "join" -> 8
      [] pc = "done" -> 9

\* C11: every fetch call moves along Lookup -> (NotFound | Downloading) ->
\* (DownloadFailed | Installing) -> (InstallFailed | Installed) and makes no
\* other transition: the one download request is sent at a successful
\* lookup, the install starts with the whole body in hand, no step of the
\* call is taken twice (no retry), and a terminal outcome is kept.
C11_StateMachine ==
    [][\A f \in Fetchers :
        /\ Phase(f)' # Phase(f) => <<Phase(f), Phase(f)'>> \in Transitions
        /\ Phase(f) \in Terminal => (Phase(f)' = Phase(f) /\ fres'[f] = fres[f])
        /\ Phase(f)' # "Other"
        /\ fpc'[f] # fpc[f] => StepRank(fpc'[f]) > StepRank(fpc[f])
        /\ freq'[f] <= 1
        /\ freq'[f] # freq[f] =>
              (Phase(f) = "Lookup" /\ Phase(f)' = "Downloading"
               /\ fver[f] \in DOMAIN versions)
        /\ Phase(f)' \in {"Downloading", "DownloadFailed", "Installing",
                          "InstallFailed", "Installed"} => freq'[f] = 1
        /\ (Phase(f) # "Installing" /\ Phase(f)' = "Installing") =>
              (fpc'[f] = "create_dir_all"
               /\ fbytes'[f] = ContentAt(finfo[f].url)
               /\ Len(fbytes'[f]) = BinLen)
        /\ Phase(f) \in {"NotCalled", "Lookup", "Downloading"} =>
              (fbytes[f] = <<>> /\ fino[f] = 0)
      ]_vars

\* C11 witness: one call ended Installed and another InstallFailed, each
\* having sent one request
C11_Witness ==
    \E f, g \in Fetchers :
        /\ Phase(f) = "Installed" /\ freq[f] = 1
        /\ Phase(g) = "InstallFailed" /\ freq[g] = 1


\* C12 as stated: fetch and all_versions ask for the lock in shared mode
\* only, and a fetch call that waits for its lookup never has to wait until
\* another fetch call, which holds the lock over its download or install,
\* has returned.
C12_AdmittedWithoutWaiting ==
    /\ \A i \in DOMAIN queue :
          queue[i].task \in {"fetch", "list"} => queue[i].mode = "read"
    /\ \A f \in Fetchers :
          fpc[f] = "read" =>
             ~(/\ Head(queue).mode = "write"
               /\ \E g \in Fetchers \ {f} : g \in readers /\ fpc[g] \in FetchIO)


\* the manifest the server serves, when it serves one
TheList == CHOOSE list \in served : TRUE

\* the position of the last descriptor of version ver
LastOf(list, ver) ==
    CHOOSE i \in DOMAIN list :
        /\ list[i].long_version = ver
        /\ \A j \in DOMAIN list : j > i => list[j].long_version # ver

PairwiseDistinct(list) ==
    \A i, j \in DOMAIN list :
        list[i].long_version = list[j].long_version => i = j

\* C13: the catalog built from a list of descriptors has the versions of
\* the descriptors as its keys, with N entries for N descriptors of pairwise
\* distinct versions, and each version holds the resolved URL and the
\* checksum of the last descriptor of that version in document order.
C13_CatalogBuild ==
    (ctor = "ready" /\ Cardinality(served) = 1) =>
        /\ initial = CatalogFrom(TheList, versions_list_url).cat
        /\ DOMAIN initial = {TheList[i].long_version : i \in DOMAIN TheList}
        /\ PairwiseDistinct(TheList) =>
              Cardinality(DOMAIN initial) = Len(TheList)
        /\ \A ver \in DOMAIN initial :
              /\ initial[ver].url =
                    InfoFrom(TheList[LastOf(TheList, ver)], versions_list_url).url
              /\ initial[ver].sha256 = TheList[LastOf(TheList, ver)].sha256

\* C13 witness: a catalog built from three descriptors, the first and the
\* last of the same version with different paths and checksums
C13_Witness ==
    /\ ctor = "ready" /\ Cardinality(served) = 1
    /\ Len(TheList) = 3
    /\ TheList[1].long_version = TheList[3].long_version
    /\ TheList[2].long_version # TheList[3].long_version
    /\ TheList[1].path # TheList[3].path
    /\ TheList[1].sha256 # TheList[3].sha256
    /\ Cardinality(DOMAIN initial) = 2


\* scheme and host of the URLs in use
Origins == {"https://binaries.soliditylang.org", "https://github.com"}

\* an absolute URL: it starts with a scheme and a host
Absolute(url) == Len(url) >= 1 /\ url[1] \in Origins

\* url is base with its last path segment replaced by the segments segs
ReplacesLastSegment(url, base, segs) ==
    /\ Len(url) = Len(base) - 1 + Len(segs)
    /\ \A i \in 1 .. (Len(base) - 1) : url[i] = base[i]
    /\ \A k \in 1 .. Len(segs) : url[Len(base) - 1 + k] = segs[k]

\* C14: in the catalog that new holds as the snapshot, the entry of a
\* descriptor whose path is an absolute URL has that URL, whatever the
\* manifest URL; the entry of a descriptor whose path is a file name (with
\* or without sub-directories) has the manifest URL with only its last path
\* segment replaced by the file name; every entry's URL is absolute.
C14_PathResolution ==
    (ctor = "ready" /\ Cardinality(served) = 1) =>
        /\ versions = initial
        /\ \A ver \in DOMAIN versions :
              LET path == TheList[LastOf(TheList, ver)].path IN
              /\ Absolute(versions[ver].url)
              /\ path.kind = "Url" => versions[ver].url = path.url
              /\ (path.kind = "Filename" /\ path.form = "relative") =>
                    ReplacesLastSegment(versions[ver].url, versions_list_url,
                                        path.segs)

\* C14 witness: a snapshot built against the manifest URL .../list.json
\* holds an entry given as an absolute URL of another host and an entry
\* given as a file name with sub-directories
C14_Witness ==
    /\ ctor = "ready" /\ Cardinality(served) = 1
    /\ versions_list_url = ListUrl
    /\ \E v, w \in DOMAIN versions :
          /\ TheList[LastOf(TheList, v)].path = PathUrl(UrlB)
          /\ versions[v].url = UrlB
          /\ TheList[LastOf(TheList, w)].path.kind = "Filename"
          /\ versions[w].url = <<"https://binaries.soliditylang.org",
                                 "linux-amd64", "download", "files", "solc-b">>


\* the manifest holds a descriptor whose path cannot be resolved
HasBadDescriptor(list) == \E i \in DOMAIN list : ~InfoOk(list[i])

\* C15: when any descriptor of the manifest cannot be resolved, wherever it
\* stands, the conversion fails, every outcome of fetch_from_url is an
\* error that carries no catalog, the failure of the conversion being the
\* path error, and new fails: the entries resolved before the bad
\* descriptor are never returned and never become the snapshot.
C15_BadDescriptorAborts ==
    (Cardinality(served) = 1 /\ HasBadDescriptor(TheList)) =>
        /\ ~CatalogFrom(TheList, versions_list_url).ok
        /\ \A o \in FetchFromUrlOutcomes(versions_list_url) :
              ~o.ok /\ o.cat = EmptyCatalog
        /\ \E o \in FetchFromUrlOutcomes(versions_list_url) : o.err = "Path"
        /\ ctor \in {"start", "failed"}
        /\ ctor = "failed" => ctorErr \in RefreshErrors
        /\ initial = EmptyCatalog /\ versions = EmptyCatalog

\* C15 witness: new failed with the path error on a manifest whose first
\* two descriptors resolve, to two versions, and whose third does not
C15_Witness ==
    /\ Cardinality(served) = 1
    /\ ctor = "failed" /\ ctorErr = "Path"
    /\ Len(TheList) = 3
    /\ InfoOk(TheList[1]) /\ InfoOk(TheList[2]) /\ ~InfoOk(TheList[3])
    /\ TheList[1].long_version # TheList[2].long_version


\* the run r is the only one that has written the snapshot
OnlyWriter(r) ==
    /\ "write" \in Range(rlocks[r])
    /\ \A q \in Refreshers \ {r} : "write" \notin Range(rlocks[q])

\* C16: the step of all_versions that holds the shared lock returns the
\* keys of the snapshot of that moment, each once, and leaves the snapshot
\* alone; after the one refresh run that installed a catalog, these are the
\* versions of that catalog; a fetch lookup against the snapshot
\* all_versions enumerated finds every version all_versions returned.
C16_AllVersions ==
    [][\A l \in Listers :
        /\ (lpc[l] = "read" /\ lpc'[l] = "done") =>
              /\ Range(lres'[l]) = DOMAIN versions
              /\ Len(lres'[l]) = Cardinality(DOMAIN versions)
              /\ lobs'[l] = versions
              /\ versions' = versions
              /\ \A ver \in Range(lres'[l]) : Get(versions, ver).found
              /\ \A r \in Refreshers :
                    (rpc[r] = "done" /\ OnlyWriter(r)) =>
                       Range(lres'[l]) = DOMAIN rfetched[r]
        /\ lpc'[l] = "done" =>
              \A f \in Fetchers :
                 (/\ fpc'[f] \notin {"idle", "read"}
                  /\ fobs'[f] = lobs'[l]
                  /\ fver'[f] \in Range(lres'[l]))
                 => /\ fres'[f].kind # "NotFound"
                    /\ finfo'[f] = lobs'[l][fver'[f]]
      ]_vars

\* C16 witness: all_versions returned the two versions of a catalog that a
\* refresh run installed in place of the initial one, and a fetch of one of
\* them, looked up against the same snapshot, has been installed
C16_Witness ==
    \E l \in Listers, r \in Refreshers, f \in Fetchers :
        /\ lpc[l] = "done" /\ Len(lres[l]) = 2
        /\ rpc[r] = "done" /\ OnlyWriter(r)
        /\ lobs[l] = rfetched[r] /\ lobs[l] # initial
        /\ fpc[f] = "done" /\ fres[f].kind = "Ok"
        /\ fobs[f] = lobs[l] /\ fver[f] \in Range(lres[l])


\* the file CompilerFetcher finds at a path before any fetch was made
PreInstalled(p) ==
    IF p = InstallPath(VerA)
    THEN [content |-> StaleContent, exec |-> FALSE]
    ELSE NoFile

\* the file at p holds a part of the body f downloaded, or nothing of it
PartlyWritten(p, f) ==
    /\ FileAt(p) # NoFile
    /\ Len(FileAt(p).content) < Len(fbytes[f])

\* f returns an error of the install
ReturnsInstallError(f) ==
    fpc[f] = "join" /\ fpc'[f] = "done" /\ fres'[f].kind \in {"File", "Shedule"}

\* C17 as stated: when a fetch that ran with no other fetch of its version
\* returns an install error, its install path does not hold a partly
\* written file, and the complete file that was at that path before the
\* call is still there with its content.
C17_SafeAgainstPartialWrites ==
    [][\A f \in Fetchers :
        (/\ ReturnsInstallError(f)
         /\ \A g \in Fetchers \ {f} : fpc[g] # "idle" => fver[g] # fver[f])
        => /\ ~PartlyWritten(InstallPath(fver[f]), f)'
           /\ PreInstalled(InstallPath(fver[f])) # NoFile =>
                 FileAt(InstallPath(fver[f]))' = PreInstalled(InstallPath(fver[f]))
      ]_vars


\* C18: a fetch call that is past its lookup and has not returned holds the
\* shared lock and the snapshot is the catalog it looked the version up in;
\* the snapshot is replaced only when no fetch call is in that stretch; and
\* when a fetch call returns, the snapshot is still the catalog of its
\* lookup.
C18_SnapshotHeldForFetch ==
    [][/\ \A f \in Fetchers :
            fpc'[f] \in FetchIO => (f \in readers' /\ versions' = fobs'[f])
       /\ (versions' # versions /\ ctor # "start") =>
            (readers = {} /\ \A f \in Fetchers : fpc[f] \notin FetchIO)
       /\ \A f \in Fetchers :
            (fpc[f] # "done" /\ fpc'[f] = "done") =>
               (versions' = fobs'[f] /\ versions' = versions /\ f \notin readers')
      ]_vars

\* C18 witness: a refresh run that found a difference waits for the
\* exclusive lock while a fetch call is in the middle of its copy
C18_Witness ==
    \E r \in Refreshers, f \in Fetchers :
        /\ rpc[r] = "write" /\ rfetched[r] # versions
        /\ Head(queue) = Waiter("refresh", r, "write")
        /\ fpc[f] = "copy" /\ foff[f] > 0
        /\ fobs[f] = versions


\* the steps of a call up to the end of its download
BeforeInstall == {"idle", "read", "get", "bytes"}

\* the call g has not touched the file system
NotInstalling(g) ==
    \/ fpc[g] \in BeforeInstall
    \/ fpc[g] = "done" /\ fres[g].kind \in {"NotFound", "Fetch"}

\* C19: a step of a fetch call up to and including the end of its download
\* leaves the file system as it is; the file system changes only by a step
\* of a call that holds the whole body; and when a call returns
\* FetchError::Fetch and no other call has started an install, the
\* directories and the files are those found before any fetch.
C19_DownloadFailureLeavesFiles ==
    [][/\ \A f \in Fetchers :
            (Steps(f) /\ fpc[f] \in BeforeInstall) =>
               UNCHANGED <<dirs, names, inodes>>
       /\ <<dirs, names, inodes>>' # <<dirs, names, inodes>> =>
            \E f \in Fetchers :
               /\ Steps(f)
               /\ fpc[f] \in InstallSteps
               /\ fbytes[f] = ContentAt(finfo[f].url)
               /\ Len(fbytes[f]) = BinLen
       /\ \A f \in Fetchers :
            (/\ fpc[f] \in {"get", "bytes"} /\ fpc'[f] = "done"
             /\ \A g \in Fetchers \ {f} : NotInstalling(g))
            => /\ fres'[f].kind = "Fetch"
               /\ dirs' = {InstallDir(VerA)}
               /\ \A p \in Paths : FileAt(p)' = PreInstalled(p)
      ]_vars

\* C19 witness: a fetch of the version that has a file installed failed at
\* the download, the file is as it was, and the directory of the other
\* version, which another call failed to download, does not exist
C19_Witness ==
    \E f, g \in Fetchers :
        /\ fpc[f] = "done" /\ fres[f].kind = "Fetch" /\ fver[f] = VerA
        /\ fpc[g] = "done" /\ fres[g].kind = "Fetch" /\ fver[g] = VerB
        /\ FileAt(InstallPath(VerA)) = PreInstalled(InstallPath(VerA))
        /\ InstallDir(VerB) \notin dirs


\* C20: with every started task kept running, a refresh run that waits for
\* the exclusive lock gets it, installs its catalog and returns Ok; every
\* refresh run, every fetch call and every call of all_versions that was
\* started returns; no task waits for a lock for ever.
C20_Progress ==
    /\ \A r \in Refreshers :
          (rpc[r] = "write") ~>
             (rpc[r] = "done" /\ rres[r] = "Ok" /\ "write" \in Range(rlocks[r]))
    /\ \A r \in Refreshers : (rpc[r] # "idle") ~> (rpc[r] = "done")
    /\ \A f \in Fetchers : (fpc[f] # "idle") ~> (fpc[f] = "done")
    /\ \A l \in Listers : (lpc[l] # "idle") ~> (lpc[l] = "done")

\* C20 witness: a refresh run installed its catalog after a fetch call that
\* was served from the earlier snapshot had returned, the other run has
\* returned too, and all_versions has listed the new snapshot
C20_Witness ==
    \E r, q \in Refreshers, f \in Fetchers, l \in Listers :
        /\ r # q
        /\ rpc[r] = "done" /\ "write" \in Range(rlocks[r])
        /\ rseen[r] = fobs[f] /\ rfetched[r] = versions
        /\ rpc[q] = "done"
        /\ fpc[f] = "done" /\ fres[f].kind = "Ok" /\ fobs[f] # versions
        /\ lpc[l] = "done" /\ lobs[l] = versions

====
